---- MODULE Spec2Model ----
(***************************************************************************)
(* Benaloh challenge: the recording / playback randomness sources          *)
(* (src/src/rng.rs) and the commit / challenge / into_results state        *)
(* machine with the verifier-side check_commitment (src/src/lib.rs).       *)
(***************************************************************************)
EXTENDS Integers, Sequences, FiniteSets, TLC

VARIABLES
    computation,    \* Challenge.computation: the untrusted computation
    rng,            \* Challenge.rng: RecordingRng {inner, recorded}
    result,         \* Challenge.result: Vec<u8>
    cached_random,  \* Challenge.cached_random: Vec<u8>
    committed,      \* Challenge.committed: bool
    hasher,         \* the digest instance shared by commit and check_commitment
    status,         \* "live", "panicked" (a panic!), "consumed" (moved by into_results)
    lastOp,         \* the call made last
    commitment,     \* value returned by the last commit (0: none yet)
    revealed,       \* value returned by the last successful challenge
    output,         \* value returned by into_results
    drawn,          \* bytes handed to the computation during the last commit, in draw order
    rounds,         \* number of commits so far: the number of the current round
    revealedRounds, \* the rounds whose randomness a challenge has returned
    freed,          \* contents of buffers dropped without being overwritten
    check,          \* the last check_commitment call of the round: its inputs and what it returned
    phase,          \* direct use of the sources: "idle", "recording", "replay", "playback"
    playback,       \* a PlaybackRng used directly: its field `recorded`
    original,       \* the bytes `playback` was created with
    reqs,           \* the last drain of the RecordingRng used directly, if any, and its fills since
    played,         \* number of requests served by `playback`
    ret             \* what the last direct call on a source returned

vars == <<computation, rng, result, cached_random, committed, hasher, status, lastOp,
          commitment, revealed, output, drawn, rounds, revealedRounds, freed, check,
          phase, playback, original, reqs, played, ret>>

sourceVars == <<phase, playback, original, reqs, played, ret>>

challengeVars == <<computation, result, cached_random, committed, hasher, status,
                   commitment, revealed, output, drawn, rounds, revealedRounds, freed,
                   check>>

---------------------------------------------------------------------------
(* Bounds *)

\* longest content of the wrapped randomness source in a Challenge session
MaxInner == 4
\* commits per session
MaxRounds == 3
\* longest content of the wrapped source when the sources are used directly
MaxSeed == 2
\* largest fill request made directly on a source
MaxDraw == 2
\* requests made on a RecordingRng used directly
MaxReq == 2
\* requests made on a PlaybackRng used directly
MaxPlay == 3

---------------------------------------------------------------------------
(* Bytes and Vec<u8> *)

ByteVals == {0, 1}

Zeros(n) == [i \in 1..n |-> 0]

RECURSIVE SeqsUpTo(_, _)
SeqsUpTo(S, n) ==
    IF n = 0 THEN {<<>>}
    ELSE LET shorter == SeqsUpTo(S, n - 1)
         IN shorter \cup {Append(s, b) : s \in {t \in shorter : Len(t) = n - 1}, b \in S}

\* A Vec<u8>: `mem` is the whole allocation (its capacity), the first `len`
\* bytes of it are the vector's elements.
VecNew == [len |-> 0, mem |-> <<>>]

VecFrom(s) == [len |-> Len(s), mem |-> s]

Contents(v) == SubSeq(v.mem, 1, v.len)

AllZero(s) == \A i \in 1..Len(s) : s[i] = 0

\* clear() in the place of zeroize(): the bytes stay in the allocation
Zeroize_ClearOnly(v) == [len |-> 0, mem |-> v.mem]

\* zeroize::Zeroize for Vec<u8>: the elements and the spare capacity are
\* overwritten with zeros and the vector is cleared.
Zeroize(v) == [len |-> 0, mem |-> Zeros(Len(v.mem))]

\* Vec::drain(..): the elements are moved out, the allocation keeps its bytes.
DrainAll(v) == [len |-> 0, mem |-> v.mem]

\* Vec::extend_from_slice
ExtendFromSlice(v, s) ==
    LET data == Contents(v) \o s
    IN [len |-> Len(data), mem |-> data \o SubSeq(v.mem, Len(data) + 1, Len(v.mem))]

\* Dropping a Vec frees its allocation as it is.
Dropped(v) == IF AllZero(v.mem) THEN {} ELSE {v.mem}

NoBytes == [some |-> FALSE, val |-> <<>>]

Some(s) == [some |-> TRUE, val |-> s]

---------------------------------------------------------------------------
(* PlaybackRng (rng.rs): its state is the field `recorded`, a byte sequence *)

PlaybackNew(bytes) == bytes

\* fill_bytes that answers a short buffer with zeros alone
PlaybackFillBytes_AllZero(recorded, n) ==
    IF Len(recorded) < n
    THEN [ok |-> TRUE, out |-> Zeros(n), rng |-> <<>>]
    ELSE [ok |-> TRUE, out |-> SubSeq(recorded, 1, n),
          rng |-> SubSeq(recorded, n + 1, Len(recorded))]

\* PlaybackRng::fill_bytes with dest.len() = n
PlaybackFillBytes(recorded, n) ==
    LET padded == IF Len(recorded) < n THEN recorded \o Zeros(n) ELSE recorded
    IN [ok  |-> TRUE,
        out |-> SubSeq(padded, 1, n),
        rng |-> SubSeq(padded, n + 1, Len(padded))]

\* try_fill_bytes without the length test
PlaybackTryFillBytes_NoCheck(recorded, n) ==
    LET padded == IF Len(recorded) < n THEN recorded \o Zeros(n) ELSE recorded
    IN [ok |-> TRUE, out |-> SubSeq(padded, 1, n), rng |-> SubSeq(padded, n + 1, Len(padded))]

\* PlaybackRng::try_fill_bytes with dest.len() = n; on Err dest is not written
PlaybackTryFillBytes(recorded, n) ==
    IF Len(recorded) < n
    THEN [ok |-> FALSE, out |-> <<>>, rng |-> recorded]
    ELSE PlaybackFillBytes(recorded, n)

---------------------------------------------------------------------------
(* RecordingRng (rng.rs): {inner, recorded}. The wrapped source `inner` is a *)
(* PlaybackRng, as in tests::cheat_test.                                    *)

RecordingNew(inner) == [inner |-> inner, recorded |-> VecNew]

\* fill_bytes that hands the bytes on without recording them
RecordingFillBytes_NoRecord(r, n) ==
    LET f == PlaybackFillBytes(r.inner, n)
    IN [ok |-> TRUE, out |-> f.out, rng |-> [inner |-> f.rng, recorded |-> r.recorded]]

\* fill_bytes that puts the new bytes in front of the record
RecordingFillBytes_Prepend(r, n) ==
    LET f == PlaybackFillBytes(r.inner, n)
    IN [ok  |-> TRUE,
        out |-> f.out,
        rng |-> [inner |-> f.rng, recorded |-> VecFrom(f.out \o Contents(r.recorded))]]

\* RecordingRng::fill_bytes
RecordingFillBytes(r, n) ==
    LET f == PlaybackFillBytes(r.inner, n)
    IN [ok  |-> TRUE,
        out |-> f.out,
        rng |-> [inner |-> f.rng, recorded |-> ExtendFromSlice(r.recorded, f.out)]]

\* RecordingRng::try_fill_bytes
RecordingTryFillBytes(r, n) ==
    LET f == RecordingFillBytes(r, n)
    IN [ok |-> TRUE, out |-> f.out, rng |-> f.rng]

\* fetch_recorded that copies the record and leaves it in place
FetchRecorded_NoDrain(r) == [out |-> Contents(r.recorded), rng |-> r]

\* fetch_recorded that clears the record without overwriting it
FetchRecorded_NoZeroize(r) ==
    [out |-> Contents(r.recorded),
     rng |-> [inner |-> r.inner, recorded |-> DrainAll(r.recorded)]]

\* RecordingRng::fetch_recorded
FetchRecorded(r) ==
    [out |-> Contents(r.recorded),
     rng |-> [inner |-> r.inner, recorded |-> Zeroize(DrainAll(r.recorded))]]

\* RecordingRng::into_playback
IntoPlayback(r) == Contents(r.recorded)

\* rand_core::impls::next_u32_via_fill: four bytes, little endian
LE32(b) == b[1] + 256 * b[2] + 65536 * b[3] + 16777216 * b[4]

\* rand_core::impls::next_u64_via_fill: eight bytes, little endian, kept as
\* its two 32-bit halves <<low, high>>
LE64(b) == <<LE32(SubSeq(b, 1, 4)), LE32(SubSeq(b, 5, 8))>>

\* One draw on a source of the given kind. `mode` is "fill" (fill_bytes) or
\* "try" (try_fill_bytes).
Fill(kind, src, mode, n) ==
    IF kind = "recording"
    THEN IF mode = "try" THEN RecordingTryFillBytes(src, n) ELSE RecordingFillBytes(src, n)
    ELSE IF mode = "try" THEN PlaybackTryFillBytes(src, n) ELSE PlaybackFillBytes(src, n)

---------------------------------------------------------------------------
(* The untrusted computation: a function of the source it is given. It     *)
(* makes its draws in order and returns bytes computed from what it drew.  *)
(*   fill n    : rng.fill_bytes(&mut [0; n])                               *)
(*   try n     : rng.try_fill_bytes(&mut [0; n]).unwrap()                  *)
(*   nonzero   : one byte by fill_bytes, drawn once more if it is zero     *)
(*               (a draw whose count depends on the bytes drawn)           *)

F(n) == [mode |-> "fill", n |-> n]

T(n) == [mode |-> "try", n |-> n]

NZ == [mode |-> "nonzero", n |-> 1]

Computations ==
    { [ops |-> <<F(2)>>,       post |-> "copy"],
      [ops |-> <<T(2)>>,       post |-> "copy"],
      [ops |-> <<F(1), T(1)>>, post |-> "sum"],
      [ops |-> <<T(1), F(2)>>, post |-> "copy"],
      [ops |-> <<NZ>>,         post |-> "copy"],
      [ops |-> <<>>,           post |-> "copy"] }

RECURSIVE Sum(_)
Sum(s) == IF s = <<>> THEN 0 ELSE Head(s) + Sum(Tail(s))

Post(post, kept) == IF post = "sum" THEN <<Sum(kept) % 256>> ELSE kept

RECURSIVE RunOps(_, _, _, _)
RunOps(ops, kind, src, acc) ==
    IF ops = <<>>
    THEN [acc EXCEPT !.rng = src]
    ELSE LET op == Head(ops)
             f  == Fill(kind, src, op.mode, op.n)
             a  == [acc EXCEPT !.drawn = @ \o f.out, !.requested = @ + op.n]
         IN IF ~f.ok
            THEN [a EXCEPT !.panicked = TRUE, !.rng = f.rng]
            ELSE IF op.mode = "nonzero" /\ f.out = <<0>>
            THEN RunOps(<<F(1)>> \o Tail(ops), kind, f.rng, a)
            ELSE RunOps(Tail(ops), kind, f.rng, [a EXCEPT !.kept = @ \o f.out])

\* the computation run a second time on the source the first run left
RunComputation_Twice(comp, kind, src) ==
    LET first == RunOps(comp.ops, kind, src,
                        [rng |-> src, drawn |-> <<>>, kept |-> <<>>,
                         requested |-> 0, panicked |-> FALSE])
        r     == RunOps(comp.ops, kind, first.rng,
                        [rng |-> first.rng, drawn |-> <<>>, kept |-> <<>>,
                         requested |-> 0, panicked |-> FALSE])
    IN [rng |-> r.rng, drawn |-> r.drawn, requested |-> r.requested,
        panicked |-> r.panicked, result |-> Post(comp.post, r.kept)]

\* (self.computation)(&mut rng): the source afterwards, the bytes drawn, the
\* number of bytes requested, and the result (none if the computation panicked)
RunComputation(comp, kind, src) ==
    LET r == RunOps(comp.ops, kind, src,
                    [rng |-> src, drawn |-> <<>>, kept |-> <<>>,
                     requested |-> 0, panicked |-> FALSE])
    IN [rng |-> r.rng, drawn |-> r.drawn, requested |-> r.requested,
        panicked |-> r.panicked, result |-> Post(comp.post, r.kept)]

---------------------------------------------------------------------------
(* The digest (Digest + FixedOutputReset): its state is the bytes fed so   *)
(* far. The hash is an encoding of them in base 8, injective on byte       *)
(* sequences whose bytes are below 7 (every result of a computation of     *)
(* Computations over ByteVals is one).                                     *)

RECURSIVE Hash(_)
Hash(bytes) ==
    IF bytes = <<>> THEN 1 ELSE 8 * Hash(SubSeq(bytes, 1, Len(bytes) - 1)) + (bytes[Len(bytes)] + 1)

\* Digest::update
Update(h, bytes) == h \o bytes

\* finalize that leaves the bytes fed so far in the digest
FinalizeFixedReset_NoReset(h) == [out |-> Hash(h), hasher |-> h]

\* FixedOutputReset::finalize_fixed_reset
FinalizeFixedReset(h) == [out |-> Hash(h), hasher |-> <<>>]

---------------------------------------------------------------------------
(* Challenge (lib.rs) *)

InnerStreams == SeqsUpTo(ByteVals, MaxInner)

NoCheck == [done |-> FALSE, commitment |-> 0, revealed |-> <<>>,
            comp |-> [ops |-> <<>>, post |-> "copy"], verdict |-> "none"]

\* The state the variables of the directly used sources are left in.
NoRet == [op |-> "none", n |-> 0, ok |-> TRUE, out |-> <<>>, val |-> <<>>]

SourcesIdle ==
    /\ phase = "idle"
    /\ playback = <<>>
    /\ original = <<>>
    /\ reqs = <<>>
    /\ played = 0
    /\ ret = NoRet

\* Challenge::new
Init ==
    /\ computation \in Computations
    /\ rng \in {RecordingNew(s) : s \in InnerStreams}
    /\ result = VecNew
    /\ cached_random = VecNew
    /\ committed = FALSE
    /\ hasher = <<>>
    /\ status = "live"
    /\ lastOp = "new"
    /\ commitment = 0
    /\ revealed = NoBytes
    /\ output = NoBytes
    /\ drawn = <<>>
    /\ rounds = 0
    /\ revealedRounds = {}
    /\ freed = {}
    /\ check = NoCheck
    /\ SourcesIdle

\* Challenge::commit
Commit ==
    /\ status = "live"
    /\ rounds < MaxRounds
    /\ LET run     == RunComputation(computation, "recording", rng)
           fetched == FetchRecorded(run.rng)
           fin     == FinalizeFixedReset(Update(hasher, run.result))
       IN /\ result' = VecFrom(run.result)
          /\ cached_random' = VecFrom(fetched.out)
          /\ rng' = fetched.rng
          /\ freed' = freed \cup Dropped(result) \cup Dropped(cached_random)
          /\ hasher' = fin.hasher
          /\ committed' = TRUE
          /\ commitment' = fin.out
          /\ drawn' = run.drawn
    /\ rounds' = rounds + 1
    /\ lastOp' = "commit"
    /\ check' = NoCheck
    /\ UNCHANGED <<computation, status, revealed, output, revealedRounds,
                   phase, playback, original, reqs, played, ret>>

\* challenge without the test of `committed`
Challenge_NoPanic ==
    /\ status = "live"
    /\ lastOp' = "challenge"
    /\ result' = Zeroize(result)
    /\ revealed' = Some(Contents(cached_random))
    /\ cached_random' = VecNew
    /\ committed' = FALSE
    /\ revealedRounds' = revealedRounds \cup {rounds}
    /\ UNCHANGED <<computation, rng, hasher, status, commitment, output, drawn, rounds,
                   freed, check, sourceVars>>

\* challenge that leaves `committed` set
Challenge_KeepsCommitted ==
    /\ status = "live"
    /\ lastOp' = "challenge"
    /\ IF ~committed
       THEN /\ status' = "panicked"
            /\ UNCHANGED <<result, cached_random, revealed, revealedRounds>>
       ELSE /\ result' = Zeroize(result)
            /\ revealed' = Some(Contents(cached_random))
            /\ cached_random' = VecNew
            /\ revealedRounds' = revealedRounds \cup {rounds}
            /\ UNCHANGED status
    /\ UNCHANGED <<computation, rng, committed, hasher, commitment, output, drawn, rounds,
                   freed, check, sourceVars>>

\* challenge that returns a copy of cached_random and keeps its own
Challenge_ClonesRandom ==
    /\ status = "live"
    /\ lastOp' = "challenge"
    /\ IF ~committed
       THEN /\ status' = "panicked"
            /\ UNCHANGED <<result, committed, revealed, revealedRounds>>
       ELSE /\ result' = Zeroize(result)
            /\ revealed' = Some(Contents(cached_random))
            /\ committed' = FALSE
            /\ revealedRounds' = revealedRounds \cup {rounds}
            /\ UNCHANGED status
    /\ UNCHANGED <<computation, rng, cached_random, hasher, commitment, output, drawn,
                   rounds, freed, check, sourceVars>>

\* Challenge::challenge
Challenge ==
    /\ status = "live"
    /\ lastOp' = "challenge"
    /\ IF ~committed
       THEN /\ status' = "panicked"
            /\ UNCHANGED <<result, cached_random, committed, revealed, revealedRounds>>
       ELSE /\ result' = Zeroize(result)
            /\ revealed' = Some(Contents(cached_random))
            /\ cached_random' = VecNew
            /\ committed' = FALSE
            /\ revealedRounds' = revealedRounds \cup {rounds}
            /\ UNCHANGED status
    /\ UNCHANGED <<computation, rng, hasher, commitment, output, drawn, rounds, freed,
                   check, sourceVars>>

\* into_results that zeroes the result and returns the randomness
IntoResults_WrongBuffer ==
    /\ status = "live"
    /\ lastOp' = "into_results"
    /\ IF ~committed
       THEN /\ status' = "panicked"
            /\ UNCHANGED <<result, cached_random, output>>
       ELSE /\ result' = Zeroize(result)
            /\ output' = Some(Contents(cached_random))
            /\ cached_random' = VecNew
            /\ status' = "consumed"
    /\ UNCHANGED <<computation, rng, committed, hasher, commitment, revealed, drawn,
                   rounds, revealedRounds, freed, check, sourceVars>>

\* into_results without the test of `committed`
IntoResults_NoPanic ==
    /\ status = "live"
    /\ lastOp' = "into_results"
    /\ cached_random' = Zeroize(cached_random)
    /\ output' = Some(Contents(result))
    /\ result' = VecNew
    /\ status' = "consumed"
    /\ UNCHANGED <<computation, rng, committed, hasher, commitment, revealed, drawn,
                   rounds, revealedRounds, freed, check, sourceVars>>

\* Challenge::into_results
IntoResults ==
    /\ status = "live"
    /\ lastOp' = "into_results"
    /\ IF ~committed
       THEN /\ status' = "panicked"
            /\ UNCHANGED <<result, cached_random, output>>
       ELSE /\ cached_random' = Zeroize(cached_random)
            /\ output' = Some(Contents(result))
            /\ result' = VecNew
            /\ status' = "consumed"
    /\ UNCHANGED <<computation, rng, committed, hasher, commitment, revealed, drawn,
                   rounds, revealedRounds, freed, check, sourceVars>>

\* What the untrusted device may send instead of the bytes it drew.
Tampered(bytes) ==
    { bytes,
      SubSeq(bytes, 1, Len(bytes) - 1),
      Zeros(Len(bytes)),
      bytes \o <<0>>,
      <<1>> \o SubSeq(bytes, 2, Len(bytes)) }

\* a comparison that was left out
Verdict_AlwaysOk(digest, c) == "ok"

\* The comparison that ends check_commitment
Verdict(digest, c) == IF digest # c THEN "VerificationFailed" ELSE "ok"

\* check_commitment(hasher, c, r, comp)
CheckCommitmentCall(c, r, comp) ==
    LET run == RunComputation(comp, "playback", PlaybackNew(r))
        fin == FinalizeFixedReset(Update(hasher, run.result))
    IN /\ IF run.panicked
          THEN /\ check' = [done |-> TRUE, commitment |-> c, revealed |-> r, comp |-> comp,
                            verdict |-> "panic"]
               /\ UNCHANGED hasher
          ELSE /\ check' = [done |-> TRUE, commitment |-> c, revealed |-> r, comp |-> comp,
                            verdict |-> Verdict(fin.out, c)]
               /\ hasher' = fin.hasher
       /\ lastOp' = "check_commitment"
       /\ UNCHANGED <<computation, rng, result, cached_random, committed, status,
                      commitment, revealed, output, drawn, rounds, revealedRounds, freed,
                      phase, playback, original, reqs, played, ret>>

\* The verifying device checks the commitment it was shown against what the
\* untrusted device sent it after a challenge, once in a round.
CheckCommitment ==
    /\ revealed.some
    /\ ~check.done
    /\ \E r \in Tampered(revealed.val), comp \in Computations :
           CheckCommitmentCall(commitment, r, comp)

Next == Commit \/ Challenge \/ IntoResults \/ CheckCommitment

Spec == Init /\ [][Next]_vars

---------------------------------------------------------------------------
(* The sources used directly (rng.rs, test::test_rng): requests on a       *)
(* RecordingRng, then into_playback and the same requests on the           *)
(* PlaybackRng; or a PlaybackRng made by PlaybackRng::new and any requests. *)

Seeds == SeqsUpTo(ByteVals, MaxSeed)

DrawSizes == 0..MaxDraw

InitRng ==
    /\ computation = [ops |-> <<>>, post |-> "copy"]
    /\ rng \in {RecordingNew(s) : s \in Seeds}
    /\ result = VecNew
    /\ cached_random = VecNew
    /\ committed = FALSE
    /\ hasher = <<>>
    /\ status = "live"
    /\ lastOp = "new"
    /\ commitment = 0
    /\ revealed = NoBytes
    /\ output = NoBytes
    /\ drawn = <<>>
    /\ rounds = 0
    /\ revealedRounds = {}
    /\ freed = {}
    /\ check = NoCheck
    /\ phase = "recording"
    /\ playback = <<>>
    /\ original = <<>>
    /\ reqs = <<>>
    /\ played = 0
    /\ ret = NoRet

Returned(op, n, f, val) == [op |-> op, n |-> n, ok |-> f.ok, out |-> f.out, val |-> val]

\* The fill requests served by the RecordingRng since its record was last
\* drained
FillReqs == SelectSeq(reqs, LAMBDA e : e.op # "fetch_recorded")

\* A fill request on the RecordingRng that leaves the source in f.rng
Recorded(op, n, f, val) ==
    /\ phase = "recording"
    /\ Len(reqs) < MaxReq
    /\ rng' = f.rng
    /\ ret' = Returned(op, n, f, val)
    /\ reqs' = Append(reqs, Returned(op, n, f, val))
    /\ lastOp' = op
    /\ UNCHANGED <<challengeVars, phase, playback, original, played>>

RecFillBytes == \E n \in DrawSizes : Recorded("fill_bytes", n, RecordingFillBytes(rng, n), <<>>)

RecTryFillBytes ==
    \E n \in DrawSizes : Recorded("try_fill_bytes", n, RecordingTryFillBytes(rng, n), <<>>)

\* RecordingRng::next_u32
RecNextU32 ==
    LET f == RecordingFillBytes(rng, 4) IN Recorded("next_u32", 4, f, <<LE32(f.out)>>)

\* RecordingRng::next_u64
RecNextU64 ==
    LET f == RecordingFillBytes(rng, 8) IN Recorded("next_u64", 8, f, LE64(f.out))

\* The entry of `reqs` that stands for a drain of the record
Drained == [op |-> "fetch_recorded", n |-> 0, ok |-> TRUE, out |-> <<>>, val |-> <<>>]

\* RecordingRng::fetch_recorded. `reqs` starts again, with the drain.
RecFetchRecorded ==
    LET f == FetchRecorded(rng)
    IN /\ phase = "recording"
       /\ rng' = f.rng
       /\ ret' = Returned("fetch_recorded", 0, [ok |-> TRUE, out |-> f.out], <<>>)
       /\ reqs' = <<Drained>>
       /\ lastOp' = "fetch_recorded"
       /\ UNCHANGED <<challengeVars, phase, playback, original, played>>

\* RecordingRng::into_playback
RecIntoPlayback ==
    /\ phase = "recording"
    /\ phase' = "replay"
    /\ playback' = IntoPlayback(rng)
    /\ original' = IntoPlayback(rng)
    /\ rng' = [rng EXCEPT !.recorded = VecNew]
    /\ lastOp' = "into_playback"
    /\ ret' = NoRet
    /\ UNCHANGED <<challengeVars, reqs, played>>

\* PlaybackRng::new on the bytes of the seed
DirectPlayback ==
    /\ phase = "recording"
    /\ reqs = <<>>
    /\ phase' = "playback"
    /\ playback' = PlaybackNew(rng.inner)
    /\ original' = rng.inner
    /\ lastOp' = "playback_new"
    /\ ret' = NoRet
    /\ UNCHANGED <<challengeVars, rng, reqs, played>>

\* In replay the PlaybackRng is asked what the RecordingRng was asked, in the
\* same order; otherwise it is asked anything.
MayPlay(op, n) ==
    \/ phase = "playback" /\ played < MaxPlay
    \/ /\ phase = "replay"
       /\ played < Len(FillReqs)
       /\ FillReqs[played + 1].op = op
       /\ FillReqs[played + 1].n = n

\* A call on the PlaybackRng that leaves the source in f.rng
Played(op, n, f, val) ==
    /\ MayPlay(op, n)
    /\ playback' = f.rng
    /\ ret' = Returned("playback_" \o op, n, f, val)
    /\ played' = played + 1
    /\ lastOp' = "playback_" \o op
    /\ UNCHANGED <<challengeVars, rng, phase, original, reqs>>

PbFillBytes == \E n \in DrawSizes : Played("fill_bytes", n, PlaybackFillBytes(playback, n), <<>>)

PbTryFillBytes ==
    \E n \in DrawSizes : Played("try_fill_bytes", n, PlaybackTryFillBytes(playback, n), <<>>)

\* PlaybackRng::next_u32
PbNextU32 ==
    LET f == PlaybackFillBytes(playback, 4) IN Played("next_u32", 4, f, <<LE32(f.out)>>)

\* PlaybackRng::next_u64
PbNextU64 ==
    LET f == PlaybackFillBytes(playback, 8) IN Played("next_u64", 8, f, LE64(f.out))

NextRng ==
    \/ RecFillBytes \/ RecTryFillBytes \/ RecNextU32 \/ RecNextU64 \/ RecFetchRecorded
    \/ RecIntoPlayback \/ DirectPlayback
    \/ PbFillBytes \/ PbTryFillBytes \/ PbNextU32 \/ PbNextU64

SpecRng == InitRng /\ [][NextRng]_vars

---------------------------------------------------------------------------
(* Claims about the Challenge session and check_commitment (Spec) *)

\* The computation run by check_commitment on the revealed bytes r
Replay(comp, r) == RunComputation(comp, "playback", PlaybackNew(r))

\* The last check was given the commitment and the revealed bytes of one
\* round (no commit since the challenge) and the Challenge's computation.
HonestCheck ==
    /\ check.done
    /\ ~committed
    /\ check.commitment = commitment
    /\ check.revealed = revealed.val
    /\ check.comp = computation

\* C1: honest round trip. In every round, check_commitment given the
\* commitment returned by commit, the bytes returned by the challenge that
\* followed it and the same computation returns success.
C1_HonestRoundTrip == HonestCheck => check.verdict = "ok"

\* A second round was checked honestly, on bytes that are not all zero.
C1_Witness ==
    /\ HonestCheck
    /\ rounds >= 2
    /\ Len(check.revealed) >= 2
    /\ ~AllZero(check.revealed)
    /\ check.verdict = "ok"

\* C2: check_commitment returns success exactly when the hash of the
\* computation replayed on the revealed bytes equals the commitment, and
\* VerificationFailed otherwise; it leaves the digest reset. When the
\* revealed bytes of an honest round are replaced by bytes that make the
\* replayed result differ, it returns VerificationFailed.
C2_CheckCommitment ==
    (check.done /\ check.verdict # "panic") =>
        /\ check.verdict \in {"ok", "VerificationFailed"}
        /\ check.verdict = "ok" <=>
               Hash(Replay(check.comp, check.revealed).result) = check.commitment
        /\ (/\ ~committed
            /\ check.commitment = commitment
            /\ check.comp = computation
            /\ ~Replay(computation, revealed.val).panicked
            /\ Replay(check.comp, check.revealed).result
                   # Replay(computation, revealed.val).result)
               => check.verdict = "VerificationFailed"

\* The revealed bytes of an honest round were replaced and the check failed.
C2_Witness ==
    /\ check.done
    /\ ~committed
    /\ check.commitment = commitment
    /\ check.comp = computation
    /\ check.revealed # revealed.val
    /\ Len(check.revealed) = Len(revealed.val)
    /\ check.verdict = "VerificationFailed"

\* C3: whenever the computation run inside check_commitment requests more
\* bytes in total than were revealed, check_commitment does not return
\* success.
C3_InsufficientRevelation ==
    (check.done /\ Replay(check.comp, check.revealed).requested > Len(check.revealed))
        => check.verdict # "ok"

\* C4: challenge and into_results called on an uncommitted Challenge panic
\* and return nothing.
C4_Ordering ==
    [][(status = "live" /\ ~committed /\ lastOp' \in {"challenge", "into_results"})
          => (status' = "panicked" /\ revealed' = revealed /\ output' = output)]_vars

\* A second challenge with no commit in between has panicked.
C4_Witness ==
    /\ status = "panicked"
    /\ lastOp = "challenge"
    /\ revealed.some
    /\ rounds >= 1

\* C5: after every commit, cached_random is exactly the bytes the
\* computation drew during that commit, in draw order, and the challenge
\* that follows returns them.
C5_CachedRandom ==
    /\ (committed /\ status = "live") => Contents(cached_random) = drawn
    /\ (lastOp = "challenge" /\ status = "live") => revealed.val = drawn

\* A later commit drew bytes that are not all zero.
C5_Witness ==
    /\ lastOp = "commit"
    /\ rounds >= 2
    /\ Len(drawn) >= 2
    /\ ~AllZero(drawn)
    /\ Contents(cached_random) = drawn

\* C6: right after a successful challenge the result buffer is empty and
\* zeroed, cached_random is empty, committed is false and the record of
\* the recording source is zeroed: the randomness is in the returned value
\* alone.
C6_ErasureOnChallenge ==
    (lastOp = "challenge" /\ status = "live") =>
        /\ result.len = 0
        /\ AllZero(result.mem)
        /\ cached_random = VecNew
        /\ ~committed
        /\ rng.recorded.len = 0
        /\ AllZero(rng.recorded.mem)
        /\ revealed.some

\* A challenge revealed bytes that are not all zero, and the buffer that
\* held the result is still allocated.
C6_Witness ==
    /\ lastOp = "challenge"
    /\ status = "live"
    /\ ~AllZero(revealed.val)
    /\ Len(result.mem) >= 2

\* C7: into_results on a committed Challenge returns the result of the
\* most recent commit (the one whose commitment was returned last), zeroes
\* cached_random, hands no randomness to the caller and consumes the
\* Challenge.
C7_IntoResults ==
    [][(status = "live" /\ committed /\ lastOp' = "into_results") =>
          /\ status' = "consumed"
          /\ output' = Some(Contents(result))
          /\ Hash(output'.val) = commitment
          /\ cached_random'.len = 0
          /\ AllZero(cached_random'.mem)
          /\ Len(cached_random'.mem) = Len(cached_random.mem)
          /\ revealed' = revealed]_vars

\* The result of a second commit, not all zero, was returned.
C7_Witness ==
    /\ status = "consumed"
    /\ rounds >= 2
    /\ output.some
    /\ ~AllZero(output.val)
    /\ Len(cached_random.mem) >= 2

\* C12: digest reuse. The one digest instance shared by the commits and the
\* checks is reset after every call, also after a check that returned
\* VerificationFailed; every commit returns the hash of exactly its own
\* result and every check compares the hash of exactly its own replayed
\* result, whatever earlier calls fed the digest.
C12_DigestReuse ==
    /\ hasher = <<>>
    /\ (committed /\ status = "live") => commitment = Hash(Contents(result))
    /\ (check.done /\ check.verdict # "panic") =>
           (check.verdict = "ok" <=>
               Hash(Replay(check.comp, check.revealed).result) = check.commitment)

\* A check in a later round returned VerificationFailed on a replayed
\* result that is not empty, after the commits and checks of earlier rounds.
C12_Witness ==
    /\ rounds >= 2
    /\ Cardinality(revealedRounds) >= 2
    /\ check.done
    /\ check.verdict = "VerificationFailed"
    /\ Replay(check.comp, check.revealed).result # <<>>
    /\ hasher = <<>>

\* C13: cast and reveal are mutually exclusive per round. The round whose
\* result into_results returned is not a round whose randomness a challenge
\* returned, and a result is returned only by into_results.
C13_CastXorReveal ==
    /\ status = "consumed" => (rounds >= 1 /\ rounds \notin revealedRounds)
    /\ output.some <=> status = "consumed"

\* A result that is not all zero was returned after an earlier round had
\* been challenged.
C13_Witness ==
    /\ status = "consumed"
    /\ revealedRounds # {}
    /\ output.some
    /\ ~AllZero(output.val)

\* C14: transitions. new() yields Uncommitted; a commit, from Uncommitted
\* or from Committed, ends without a panic in Committed; a successful challenge leads from Committed to Uncommitted.
\* The challenge or the into_results that follows commits made in a row
\* returns the randomness, respectively the result, of the last of them.
C14_Transitions ==
    /\ [](rounds = 0 => ~committed)
    /\ [][/\ lastOp' = "commit" =>
               /\ committed'
               /\ status' = "live"
               /\ rounds' = rounds + 1
          /\ (lastOp' = "challenge" /\ committed) =>
               /\ ~committed'
               /\ status' = "live"
               /\ revealed' = Some(drawn)
               /\ revealedRounds' = revealedRounds \cup {rounds}
          /\ (lastOp' = "into_results" /\ committed) =>
               /\ status' = "consumed"
               /\ Hash(output'.val) = commitment]_vars

\* Two commits in a row, then a challenge that revealed bytes not all zero.
C14_Witness ==
    /\ lastOp = "challenge"
    /\ status = "live"
    /\ rounds = 2
    /\ revealedRounds = {2}
    /\ ~AllZero(revealed.val)

\* Two commits in a row, then into_results.
C14_WitnessIntoResults ==
    /\ status = "consumed"
    /\ rounds = 2
    /\ revealedRounds = {}
    /\ ~AllZero(output.val)

\* C15: while the Challenge exists (into_results has not consumed it),
\* committed is true exactly when a commit was made and its round was not
\* yet challenged; result and cached_random then hold the values of that
\* commit. Whenever committed is false both buffers are empty.
C15_CommittedFlag ==
    status # "consumed" =>
        /\ committed <=> (rounds >= 1 /\ rounds \notin revealedRounds)
        /\ committed =>
               /\ Contents(cached_random) = drawn
               /\ Hash(Contents(result)) = commitment
        /\ ~committed =>
               /\ Contents(result) = <<>>
               /\ Contents(cached_random) = <<>>

\* Uncommitted after the challenge of a second round that drew bytes.
C15_Witness ==
    /\ status = "live"
    /\ ~committed
    /\ rounds >= 2
    /\ lastOp = "challenge"
    /\ revealed.val # <<>>
    /\ Len(result.mem) >= 1

\* Committed again after a challenge, holding bytes not all zero.
C15_WitnessCommitted ==
    /\ status = "live"
    /\ committed
    /\ revealedRounds # {}
    /\ ~AllZero(Contents(cached_random))
    /\ ~AllZero(Contents(result))

\* C16: erasure on every handoff or supersession. No buffer that held a
\* result or recorded randomness is released by the Challenge without
\* having been overwritten with zeros, and what a challenge leaves behind
\* is zeroed.
C16_ErasureOnSupersession ==
    /\ freed = {}
    /\ (status = "live" /\ ~committed) => (AllZero(result.mem) /\ AllZero(cached_random.mem))

\* C18: a commit runs the computation once: it takes from the wrapped
\* source exactly the bytes that computation drew. challenge and
\* into_results leave the RecordingRng as it was, and the record is empty
\* after every operation.
C18_OnlyCommitDraws ==
    /\ [](rng.recorded.len = 0 /\ AllZero(rng.recorded.mem))
    /\ [][/\ lastOp' = "commit" =>
               /\ Contents(cached_random') = drawn'
               /\ Len(rng.inner) >= Len(drawn') => rng.inner = drawn' \o rng'.inner
               /\ Len(rng.inner) < Len(drawn') =>
                      /\ SubSeq(drawn', 1, Len(rng.inner)) = rng.inner
                      /\ AllZero(SubSeq(drawn', Len(rng.inner) + 1, Len(drawn')))
          /\ lastOp' \in {"challenge", "into_results"} =>
               /\ rng' = rng
               /\ drawn' = drawn
               /\ commitment' = commitment]_vars

\* A second commit drew bytes not all zero from what the first had left of
\* the wrapped source.
C18_Witness ==
    /\ lastOp = "commit"
    /\ rounds = 2
    /\ ~AllZero(drawn)
    /\ Len(rng.inner) >= 1
    /\ Len(rng.recorded.mem) >= 1

---------------------------------------------------------------------------
(* Claims about the sources (SpecRng) *)

RECURSIVE Concat(_)
Concat(entries) == IF entries = <<>> THEN <<>> ELSE Head(entries).out \o Concat(Tail(entries))

NotDrained == FillReqs = reqs

\* C8: the record of a RecordingRng that was not drained is the bytes it
\* returned, in call order, and the PlaybackRng made by into_playback
\* returns for the same requests the same bytes.
C8_RecordReplay ==
    /\ (phase = "recording" /\ NotDrained) => Contents(rng.recorded) = Concat(reqs)
    /\ (phase = "replay" /\ NotDrained) => original = Concat(reqs)
    /\ (phase = "replay" /\ NotDrained /\ played >= 1) =>
            /\ ret.ok
            /\ ret.out = reqs[played].out
            /\ ret.val = reqs[played].val

\* Two different requests, one of them next_u32, were recorded and replayed.
C8_Witness ==
    /\ phase = "replay"
    /\ NotDrained
    /\ played = 2
    /\ reqs[1].out # reqs[2].out
    /\ \E i \in 1..2 : reqs[i].op = "next_u32" /\ reqs[i].val # <<0>>
    /\ \E i \in 1..2 : reqs[i].op \in {"fill_bytes", "try_fill_bytes"} /\ ~AllZero(reqs[i].out)

\* C9: a checked fill of n bytes succeeds when n bytes remain, returning
\* the first n and removing them; when fewer remain it fails, writes
\* nothing and leaves the remaining sequence as it was.
C9_CheckedFill ==
    [][lastOp' = "playback_try_fill_bytes" =>
          IF Len(playback) >= ret'.n
          THEN /\ ret'.ok
               /\ ret'.out = SubSeq(playback, 1, ret'.n)
               /\ playback' = SubSeq(playback, ret'.n + 1, Len(playback))
          ELSE /\ ~ret'.ok
               /\ ret'.out = <<>>
               /\ playback' = playback]_vars

\* A checked fill failed with bytes still remaining.
C9_Witness ==
    /\ lastOp = "playback_try_fill_bytes"
    /\ ~ret.ok
    /\ Len(playback) >= 1
    /\ ~AllZero(playback)

\* C10: an unchecked fill of n bytes never fails; with k < n bytes
\* remaining it returns them followed by n - k zeros, with k >= n it
\* returns the first n remaining bytes.
C10_UncheckedFill ==
    [][lastOp' = "playback_fill_bytes" =>
          /\ ret'.ok
          /\ Len(ret'.out) = ret'.n
          /\ ret'.out = IF Len(playback) < ret'.n
                         THEN playback \o Zeros(ret'.n - Len(playback))
                         ELSE SubSeq(playback, 1, ret'.n)]_vars

\* An unchecked fill ran short after returning a byte that is not zero.
C10_Witness ==
    /\ lastOp = "playback_fill_bytes"
    /\ Len(ret.out) = 2
    /\ ret.out[1] # 0
    /\ ret.out[2] = 0
    /\ phase = "playback"
    /\ played = 1
    /\ Len(original) = 1

C11_WitnessSecondDrain ==
    /\ lastOp = "fetch_recorded"
    /\ ret.out = <<>>
    /\ Len(rng.recorded.mem) >= 1

IsSuffix(s, t) == Len(s) <= Len(t) /\ s = SubSeq(t, Len(t) - Len(s) + 1, Len(t))

\* C17: after any sequence of checked and unchecked fills the remaining
\* sequence of a PlaybackRng is a suffix of the sequence it was created
\* with, and a checked fill of one or more bytes that follows an unchecked
\* fill that ran short fails.
C17_RemainingIsSuffix ==
    phase \in {"replay", "playback"} => IsSuffix(playback, original)

====
